---- MODULE Spec2Model ----
(***************************************************************************)
(* State-machine model of @vamship/ssh-utils: SshClient.run() and          *)
(* SshClient._runCommandSet() (src/src/ssh-client.js) on top of            *)
(* RemoteClient.getConnectionOptions() (remote-client.js).                 *)
(*                                                                         *)
(* One behaviour is one call of run() on one configured client.  The       *)
(* transport (ssh2 Client and the exec streams) is the environment: it     *)
(* delivers 'ready', 'error', 'continue', the exec start callback, and     *)
(* the stream events 'close', 'data' and stderr 'data'.  Every handler of  *)
(* the program is one action.  Promise callbacks (bluebird) run in a turn  *)
(* of their own, so each promise hop that changes observable state is an   *)
(* action too, and transport events may interleave with the hops.          *)
(*                                                                         *)
(* The transport is taken to be a correct primitive: it emits 'ready' at   *)
(* most once and not after an 'error', invokes the start callback of an    *)
(* exec call once, and emits 'close' once per stream.  'error',            *)
(* 'continue' and data events may arrive at any time.                      *)
(*                                                                         *)
(* Spec is one call of run().  SpecOptions is the configured client on     *)
(* its own, with direct and possibly overlapping calls of                  *)
(* getConnectionOptions().  SpecCtor is the constructor of RemoteClient    *)
(* applied to every combination of option values.  SpecTwo is two          *)
(* overlapping calls of run() on one client.                               *)
(***************************************************************************)
EXTENDS Integers, Sequences, FiniteSets, TLC

\* ---------------------------------------------------------------- bounds
MaxCmds == 2        \* longest command list explored
MaxChunks == 2      \* data chunks delivered in one run (all streams)
MaxErrors == 1      \* transport 'error' events delivered in one run
MaxCalls == 3       \* direct getConnectionOptions() calls on one client

\* ------------------------------------------------------------ input sets
\* The text of the k-th command of a list.  The engine never inspects the
\* text, so one list per length is explored; neighbours differ and texts
\* repeat at a distance of two.
CmdText(k) == IF k % 2 = 1 THEN "a" ELSE "b"

RECURSIVE CmdList(_)
CmdList(n) == IF n = 0 THEN <<>> ELSE Append(CmdList(n - 1), CmdText(n))

\* close(code, signal): <<c>> is the exit code c, <<>> an undefined code
\* (the stream closed without an exit status).
CloseCodes == {<<0>>, <<1>>, <<>>}

\* An array element that is not a string (a number, say).  It is written
\* as a token no command text equals.
NonStringElement == "<number>"

IsStringElement(e) == e # NonStringElement

\* The values run() may be called with.  kind is the JavaScript type of
\* the argument; str is its value when a string, arr when an array.  Arrays
\* of command strings of every length, and one array whose element is not
\* a string.
Args ==
    {[kind |-> "string", str |-> s, arr |-> <<>>] : s \in {"", CmdText(1)}}
    \cup {[kind |-> "array", str |-> "", arr |-> CmdList(n)] : n \in 0..MaxCmds}
    \cup {[kind |-> "array", str |-> "", arr |-> <<NonStringElement>>]}
    \cup {[kind |-> k, str |-> "", arr |-> <<>>] : k \in {"number", "object"}}

\* Authentication settings a constructed client can hold
\* (remote-client.js constructor: at least one of the two is defined).
AuthModes == {"password", "key", "key+password"}

\* The values an option of the constructor may have, by what
\* _argValidator.checkString(v, 1) tells apart: undefined, the empty
\* string, a non-empty string, and a value that is not a string.
CtorValues == {"undefined", "empty", "string", "number"}

\* The arguments new RemoteClient(options) may be called with.  kind is
\* the JavaScript type of options itself: an object with every combination
\* of option values, or no object at all.
CtorInputs ==
    [kind : {"object"}, host : CtorValues, username : CtorValues,
     password : CtorValues, privateKey : CtorValues]
    \cup {[kind |-> "undefined", host |-> "undefined", username |-> "undefined",
           password |-> "undefined", privateKey |-> "undefined"]}

VARIABLES
    ctorIn,         \* the options argument of the constructor
    ctorOut,        \* its outcome: none (not called), constructed, or the error
    arg,            \* the commands argument of run()
    auth,           \* this._password / this._privateKey as configured
    privateKeyData, \* this._privateKeyData: 0 is undefined, n the data of read n
    reads,          \* number of _fs.readFile calls made
    runRead,        \* the read started by run(), 0 when it started none
    runOpts,        \* connOpts: what getConnectionOptions() resolved with in run()
    calls,          \* direct getConnectionOptions() calls on the client
    readOk,         \* a read of the key file has completed successfully
    pc,             \* position of run(): start, threw, options, session, failed
    options,        \* promise of getConnectionOptions(): none, reading, resolved, rejected
    commands,       \* the normalised command array
    execResult,     \* the execResult object of run()
    promiseSt,      \* promise returned by run(): none, pending, resolved, rejected
    promiseVal,     \* what it settled with
    session,        \* ssh2 client: none, connecting, ready
    connectCalls,   \* number of client.connect() calls
    clients,        \* number of _ssh2.Client objects constructed
    connLog,        \* per connect() call: the handlers attached at that
                    \* moment and the options passed
    endCalls,       \* number of client.end() calls
    errCount,       \* number of 'error' events delivered
    loopPc,         \* position of the promise chain of the ready handler
    idx,            \* index mapSeries is at (1-based)
    results,        \* the results array of _runCommandSet
    finishMethod,   \* _finishMethod: <<>> is undefined, <<i>> resolves mapper i
    mapperSt,       \* state of the promise of each mapper call
    chan,           \* per exec call: start callback / stream state, the
                    \* close code and data chunks the transport delivered,
                    \* and, when its exec returned false, whether a
                    \* 'continue' came after its close
    execLog,        \* the exec calls made, in call order
    contSeen,       \* exec calls after which a 'continue' was delivered
    chunks,         \* number of data chunks delivered
    other           \* the variables of a second run() call on the same
                    \* client (in the order of perRun) while the call
                    \* above is the one looked at

vars == <<ctorIn, ctorOut, arg, auth, privateKeyData, reads, runRead, runOpts,
          calls, readOk, pc, options, commands, execResult, promiseSt,
          promiseVal, session, connectCalls, clients, connLog, endCalls,
          errCount, loopPc, idx,
          results, finishMethod, mapperSt, chan, execLog, contSeen, chunks,
          other>>

configVars == <<ctorIn, ctorOut, arg, auth, other>>
keyVars == <<privateKeyData, reads, runRead, runOpts, calls, readOk>>
runVars == <<pc, options, commands, keyVars>>
sessionVars == <<session, connectCalls, clients, connLog>>
loopVars == <<loopPc, idx, results, finishMethod, mapperSt, chan, execLog>>

\* ------------------------------------------------ RemoteClient constructor
\* _argValidator.checkString(v, 1) on an option of the constructor.
IsNonEmptyString(v) == v = "string"

\* Mutant of Constructor: the check that at least one credential is given
\* is missing.
ConstructorNoCredentialCheck(in) ==
    IF in.kind # "object" THEN [out |-> "ArgError:options", auth |-> "none"]
    ELSE IF ~IsNonEmptyString(in.host)
    THEN [out |-> "ArgError:host", auth |-> "none"]
    ELSE IF ~IsNonEmptyString(in.username)
    THEN [out |-> "ArgError:username", auth |-> "none"]
    ELSE [out |-> "constructed",
          auth |-> IF ~IsNonEmptyString(in.privateKey)
                   THEN IF IsNonEmptyString(in.password) THEN "password"
                        ELSE "none"
                   ELSE IF IsNonEmptyString(in.password) THEN "key+password"
                   ELSE "key"]

\* new RemoteClient(options): the checks are made in the order options,
\* host, username; a privateKey or password that is not a non-empty
\* string becomes undefined, and the constructor throws when both are
\* undefined.  auth is what this._password / this._privateKey then hold.
Constructor(in) ==
    IF in.kind # "object" THEN [out |-> "ArgError:options", auth |-> "none"]
    ELSE IF ~IsNonEmptyString(in.host)
    THEN [out |-> "ArgError:host", auth |-> "none"]
    ELSE IF ~IsNonEmptyString(in.username)
    THEN [out |-> "ArgError:username", auth |-> "none"]
    ELSE IF ~IsNonEmptyString(in.privateKey) /\ ~IsNonEmptyString(in.password)
    THEN [out |-> "ArgError:credentials", auth |-> "none"]
    ELSE [out |-> "constructed",
          auth |-> IF ~IsNonEmptyString(in.privateKey) THEN "password"
                   ELSE IF IsNonEmptyString(in.password) THEN "key+password"
                   ELSE "key"]

\* The options a client holding the settings a was constructed with.
ConfiguredWith(a) ==
    [kind |-> "object", host |-> "string", username |-> "string",
     password |-> IF a = "key" THEN "undefined" ELSE "string",
     privateKey |-> IF a = "password" THEN "undefined" ELSE "string"]

\* connOpts before getConnectionOptions() has resolved.
NoOptions == [password |-> "none", passphrase |-> "none", privateKey |-> 0]

\* What belongs to one call of run(): its arguments and locals (commands,
\* execResult, the promise, client) and the locals of its _runCommandSet
\* call (results, _finishMethod, the mapSeries loop), with the history of
\* the events of its session.  The fields of `this` (the key cache) and
\* the file system are shared by all calls.
perRun ==
    <<pc, options, commands, execResult, promiseSt, promiseVal, session,
      connectCalls, clients, connLog, endCalls, errCount, loopPc, idx,
      results, finishMethod, mapperSt, chan, execLog, contSeen, runRead,
      runOpts>>

\* perRun of a call of run() that has not been made yet.
NoRun ==
    <<"start", "none", <<>>,
      [commandCount |-> 0, successCount |-> 0, failureCount |-> 0,
       linked |-> FALSE],
      "none", "none", "none", 0, 0, <<>>, 0, 0, "none", 1, <<>>, <<>>, <<>>,
      <<>>, <<>>, {}, 0, NoOptions>>

\* The state of the engine before run() is called: no key data is cached
\* (this._privateKeyData = undefined at the end of the constructor).
InitEngine ==
    /\ privateKeyData = 0
    /\ reads = 0
    /\ runRead = 0
    /\ runOpts = NoOptions
    /\ clients = 0
    /\ connLog = <<>>
    /\ calls = <<>>
    /\ readOk = FALSE
    /\ pc = "start"
    /\ options = "none"
    /\ commands = <<>>
    /\ execResult = [commandCount |-> 0, successCount |-> 0,
                     failureCount |-> 0, linked |-> FALSE]
    /\ promiseSt = "none"
    /\ promiseVal = "none"
    /\ session = "none"
    /\ connectCalls = 0
    /\ endCalls = 0
    /\ errCount = 0
    /\ loopPc = "none"
    /\ idx = 1
    /\ results = <<>>
    /\ finishMethod = <<>>
    /\ mapperSt = <<>>
    /\ chan = <<>>
    /\ execLog = <<>>
    /\ contSeen = {}
    /\ chunks = 0
    /\ other = NoRun

\* A constructed client on which run() has not been called yet.
Init ==
    /\ arg \in Args
    /\ auth \in AuthModes
    /\ ctorIn = ConfiguredWith(auth)
    /\ ctorOut = "constructed"
    /\ InitEngine

\* new RemoteClient(ctorIn).
Construct ==
    /\ ctorOut = "none"
    /\ ctorOut' = Constructor(ctorIn).out
    /\ auth' = Constructor(ctorIn).auth
    /\ UNCHANGED <<ctorIn, arg, other, runVars, execResult, promiseSt, promiseVal,
                   sessionVars, endCalls, errCount, loopVars, contSeen, chunks>>

\* ------------------------------------------------------- argument checks
\* _argValidator.checkString(commands, 1): a string of length >= 1.
checkString(a) == a.kind = "string" /\ a.str # ""

\* Mutant of checkArray: the check of the argument is missing.
checkArrayAny(a) == TRUE

\* _argValidator.checkArray(commands, message) passes for arrays only.
checkArray(a) == a.kind = "array"

\* Mutant of Normalise: a string is not wrapped into an array.
NormaliseNoWrap(a) == a

\* run(): a non-empty string is wrapped into a one-element array.
Normalise(a) ==
    IF checkString(a) THEN [kind |-> "array", str |-> "", arr |-> <<a.str>>]
    ELSE a

\* --------------------------------------------------- getConnectionOptions
\* getConnectionOptions() starts a read of the key file when a private key
\* is configured and this._privateKeyData is not set.
NeedsRead == auth # "password" /\ privateKeyData = 0

\* Mutant of StoredKeyData: something is stored for a failed read as well.
StoredKeyDataCacheError(rid, err) == rid

\* What the readFile callback stores in this._privateKeyData: the data
\* argument, which is undefined when the read failed.  The data of read n
\* is n, so the data of different reads can be told apart.
StoredKeyData(rid, err) == IF err THEN 0 ELSE rid

\* Mutant of ConnectionOptions: the password is passed along with the key.
ConnectionOptionsKeepPassword(keyData) ==
    IF auth = "password"
    THEN [password |-> "pw", passphrase |-> "none", privateKey |-> 0]
    ELSE [password |-> IF auth = "key+password" THEN "pw" ELSE "none",
          passphrase |-> IF auth = "key+password" THEN "pw" ELSE "none",
          privateKey |-> keyData]

\* The connection options a call resolves with: the password when no
\* private key is configured, otherwise the key data and, as passphrase,
\* this._password (undefined when no password is configured).
ConnectionOptions(keyData) ==
    IF auth = "password"
    THEN [password |-> "pw", passphrase |-> "none", privateKey |-> 0]
    ELSE [password |-> "none",
          passphrase |-> IF auth = "key+password" THEN "pw" ELSE "none",
          privateKey |-> keyData]

\* client.getConnectionOptions(), called on the client directly: password
\* authentication and a cached key resolve without a read, otherwise
\* _fs.readFile is called.  `after` records that a read had completed
\* successfully before this call started.
GetConnectionOptions ==
    /\ Len(calls) < MaxCalls
    /\ IF NeedsRead
       THEN /\ reads' = reads + 1
            /\ calls' = Append(calls, [st |-> "reading", rid |-> reads + 1,
                                       after |-> readOk, opts |-> NoOptions])
       ELSE /\ reads' = reads
            /\ calls' = Append(calls, [st |-> "resolved", rid |-> 0,
                                       after |-> readOk,
                                       opts |-> ConnectionOptions(privateKeyData)])
    /\ UNCHANGED <<configVars, privateKeyData, runRead, runOpts, readOk, pc,
                   options, commands, execResult, promiseSt, promiseVal, sessionVars,
                   endCalls, errCount, loopVars, contSeen, chunks>>

\* Callback of _fs.readFile for the direct call c: reject(err) on an
\* error, then in both cases this._privateKeyData = data and
\* resolve(data), which has no effect on a rejected promise.
ReadFileDone(c, err) ==
    /\ calls[c].st = "reading"
    /\ privateKeyData' = StoredKeyData(calls[c].rid, err)
    /\ readOk' = (readOk \/ ~err)
    /\ calls' = [calls EXCEPT
                    ![c].st = IF err THEN "rejected" ELSE "resolved",
                    ![c].opts = IF err THEN NoOptions
                                ELSE ConnectionOptions(calls[c].rid)]
    /\ UNCHANGED <<configVars, reads, runRead, runOpts, pc, options, commands,
                   execResult, promiseSt, promiseVal, sessionVars, endCalls,
                   errCount, loopVars, contSeen, chunks>>

\* ------------------------------------------------ run(): synchronous part
\* run(commands) up to the call of getConnectionOptions(), whose
\* synchronous part either resolves at once (password, or cached key) or
\* starts reading the key file.
Run ==
    /\ pc = "start"
    /\ LET n == Normalise(arg) IN
       IF ~checkArray(n)
       THEN /\ pc' = "threw"
            /\ UNCHANGED <<options, commands, execResult, promiseSt>>
       ELSE /\ pc' = "options"
            /\ commands' = n.arr
            /\ execResult' = [execResult EXCEPT !.commandCount = Len(n.arr)]
            /\ promiseSt' = "pending"
            /\ options' = IF NeedsRead THEN "reading" ELSE "resolved"
    /\ IF checkArray(Normalise(arg)) /\ NeedsRead
       THEN reads' = reads + 1 /\ runRead' = reads + 1
       ELSE UNCHANGED <<reads, runRead>>
    /\ runOpts' = IF checkArray(Normalise(arg)) /\ ~NeedsRead
                  THEN ConnectionOptions(privateKeyData) ELSE runOpts
    /\ UNCHANGED <<configVars, privateKeyData, calls, readOk, promiseVal,
                   sessionVars, endCalls, errCount, loopVars, contSeen, chunks>>

\* Mutant of ReadFileCallback: an error of the read is ignored, the promise
\* resolves with the undefined data.
ReadFileCallbackNoReject(err) ==
    /\ options = "reading"
    /\ options' = "resolved"
    /\ privateKeyData' = StoredKeyData(runRead, err)
    /\ readOk' = (readOk \/ ~err)
    /\ runOpts' = ConnectionOptions(StoredKeyData(runRead, err))
    /\ UNCHANGED <<configVars, pc, commands, reads, runRead, calls, execResult,
                   promiseSt, promiseVal,
                   sessionVars, endCalls, errCount, loopVars, contSeen, chunks>>

\* Callback of _fs.readFile(this._privateKey, ...): on an error the promise
\* is rejected, and in both cases this._privateKeyData = data (undefined
\* when the read failed).
ReadFileCallback(err) ==
    /\ options = "reading"
    /\ options' = IF err THEN "rejected" ELSE "resolved"
    /\ privateKeyData' = StoredKeyData(runRead, err)
    /\ readOk' = (readOk \/ ~err)
    /\ runOpts' = IF err THEN runOpts ELSE ConnectionOptions(runRead)
    /\ UNCHANGED <<configVars, pc, commands, reads, runRead, calls, execResult,
                   promiseSt, promiseVal,
                   sessionVars, endCalls, errCount, loopVars, contSeen, chunks>>

\* Mutant of HandlersAtConnect: connect() is called before the handlers
\* are attached.
HandlersAtConnectNone == {}

\* client.on('ready', ...).on('error', ...).connect(connOpts): the handlers
\* the session has when connect() is called.
HandlersAtConnect == {"ready", "error"}

\* Mutant of OptionsSettled: _runCommandSet is started right after
\* connect() instead of in the 'ready' handler.
OptionsSettledStartsLoop ==
    /\ pc = "options"
    /\ options \in {"resolved", "rejected"}
    /\ IF options = "resolved"
       THEN /\ pc' = "session"
            /\ session' = "connecting"
            /\ clients' = clients + 1
            /\ connectCalls' = connectCalls + 1
            /\ connLog' = Append(connLog, [handlers |-> HandlersAtConnect,
                                           opts |-> runOpts])
            /\ loopPc' = "next"
            /\ UNCHANGED <<promiseSt, promiseVal>>
       ELSE /\ pc' = "failed"
            /\ promiseSt' = "rejected"
            /\ promiseVal' = "storageError"
            /\ UNCHANGED <<sessionVars, loopPc>>
    /\ UNCHANGED <<configVars, options, commands, keyVars, execResult,
                   endCalls, errCount, idx, results, finishMethod, mapperSt,
                   chan, execLog, contSeen, chunks>>

\* .then((connOpts) => new Promise(...)): the session is constructed, the
\* 'ready' and 'error' handlers are attached and connect() is called; a
\* rejected getConnectionOptions() rejects the promise of run().
OptionsSettled ==
    /\ pc = "options"
    /\ options \in {"resolved", "rejected"}
    /\ IF options = "resolved"
       THEN /\ pc' = "session"
            /\ session' = "connecting"
            /\ clients' = clients + 1
            /\ connectCalls' = connectCalls + 1
            /\ connLog' = Append(connLog, [handlers |-> HandlersAtConnect,
                                           opts |-> runOpts])
            /\ UNCHANGED <<promiseSt, promiseVal>>
       ELSE /\ pc' = "failed"
            /\ promiseSt' = "rejected"
            /\ promiseVal' = "storageError"
            /\ UNCHANGED sessionVars
    /\ UNCHANGED <<configVars, options, commands, keyVars, execResult,
                   endCalls, errCount, loopVars, contSeen, chunks>>

\* ------------------------------------------------------ promise helpers
\* resolve(v) / reject(e) of the promise constructed in run(): only the
\* first settlement counts.
SettleRun(st, val) ==
    IF promiseSt = "pending"
    THEN promiseSt' = st /\ promiseVal' = val
    ELSE UNCHANGED <<promiseSt, promiseVal>>

\* Mutant of NextIndex: the loop steps over an element.
NextIndexSkip(i) == i + 2

\* Promise.mapSeries: the mapper of the next element is called once the
\* promise of the current one is resolved.
NextIndex(i) == i + 1

\* Mutant of RunCommandSetOutcome: the .catch is missing, so a rejected
\* mapSeries rejects the promise of _runCommandSet and the .then of the
\* ready handler is skipped.
RunCommandSetOutcomeNoCatch(st) ==
    IF st = "rejected" THEN "finally" ELSE "settled"

\* Where the chain of the ready handler goes once mapSeries has settled
\* with st: .then(() => results) and .catch(() => results) both resolve
\* the promise of _runCommandSet with results, so the tally runs next.
RunCommandSetOutcome(st) == "settled"

\* Mutant of SettleMapper: a rejected command does not stop the loop.
SettleMapperContinueOnReject(i, st) ==
    IF mapperSt[i] = "pending"
    THEN /\ mapperSt' = [mapperSt EXCEPT ![i] = st]
         /\ loopPc' = "next"
         /\ idx' = NextIndex(idx)
    ELSE UNCHANGED <<mapperSt, loopPc, idx>>

\* resolve(result) / reject(err) of the promise of mapper i.  mapSeries
\* goes on to the next element on a resolution and is rejected on a
\* rejection.
SettleMapper(i, st) ==
    IF mapperSt[i] = "pending"
    THEN /\ mapperSt' = [mapperSt EXCEPT ![i] = st]
         /\ loopPc' = IF st = "resolved" THEN "next"
                      ELSE RunCommandSetOutcome("rejected")
         /\ idx' = IF st = "resolved" THEN NextIndex(idx) ELSE idx
    ELSE UNCHANGED <<mapperSt, loopPc, idx>>

\* ------------------------------------------------------ session events
\* client.on('ready'): _runCommandSet(client, commands) is called: the
\* 'continue' handler is installed, results = [], _finishMethod is
\* undefined and mapSeries starts.
TransportReady ==
    /\ session = "connecting"
    /\ errCount = 0
    /\ session' = "ready"
    /\ loopPc' = "next"
    /\ idx' = 1
    /\ results' = <<>>
    /\ finishMethod' = <<>>
    /\ UNCHANGED <<configVars, runVars, execResult, promiseSt, promiseVal,
                   connectCalls, clients, connLog, endCalls, errCount,
                   mapperSt, chan, execLog,
                   contSeen, chunks>>

\* Mutant of TransportError: the handler ends the session but does not
\* reject.
TransportErrorNoReject ==
    /\ session # "none"
    /\ errCount < MaxErrors
    /\ errCount' = errCount + 1
    /\ endCalls' = endCalls + 1
    /\ UNCHANGED <<configVars, runVars, execResult, sessionVars, loopVars,
                   contSeen, chunks, promiseSt, promiseVal>>

\* Mutant of TransportError: the handler rejects but does not end the
\* session.
TransportErrorNoEnd ==
    /\ session # "none"
    /\ errCount < MaxErrors
    /\ errCount' = errCount + 1
    /\ SettleRun("rejected", "transportError")
    /\ UNCHANGED <<configVars, runVars, execResult, sessionVars, loopVars,
                   contSeen, chunks, endCalls>>

\* client.on('error'): client.end() and reject(err).
TransportError ==
    /\ session # "none"
    /\ errCount < MaxErrors
    /\ errCount' = errCount + 1
    /\ endCalls' = endCalls + 1
    /\ SettleRun("rejected", "transportError")
    /\ UNCHANGED <<configVars, runVars, execResult, sessionVars, loopVars,
                   contSeen, chunks>>

\* Mutant of Continue: _finishMethod does not clear itself.
ContinueNoClear ==
    /\ session # "none"
    /\ contSeen' = contSeen \cup DOMAIN execLog
    /\ chan' = [i \in DOMAIN chan |->
                  [chan[i] EXCEPT
                      !.cont = @ \/ (chan[i].st = "closed" /\ ~execLog[i].ret)]]
    /\ IF session = "ready" /\ finishMethod # <<>>
       THEN /\ SettleMapper(finishMethod[1], "resolved")
            /\ UNCHANGED finishMethod
       ELSE UNCHANGED <<mapperSt, loopPc, idx, finishMethod>>
    /\ UNCHANGED <<configVars, runVars, execResult, promiseSt, promiseVal,
                   sessionVars, endCalls, errCount, results, execLog, chunks>>

\* client.on('continue'): _finishMethod is invoked when it is set; the
\* handler exists once 'ready' was handled.  _finishMethod resolves the
\* promise of its command and clears itself.
Continue ==
    /\ session # "none"
    /\ contSeen' = contSeen \cup DOMAIN execLog
    /\ chan' = [i \in DOMAIN chan |->
                  [chan[i] EXCEPT
                      !.cont = @ \/ (chan[i].st = "closed" /\ ~execLog[i].ret)]]
    /\ IF session = "ready" /\ finishMethod # <<>>
       THEN /\ SettleMapper(finishMethod[1], "resolved")
            /\ finishMethod' = <<>>
       ELSE UNCHANGED <<mapperSt, loopPc, idx, finishMethod>>
    /\ UNCHANGED <<configVars, runVars, execResult, promiseSt, promiseVal,
                   sessionVars, endCalls, errCount, results, execLog, chunks>>

\* ------------------------------------------------------ the command loop
\* Mapper of mapSeries for the element at idx: _finishMethod = undefined
\* and client.exec(command, callback), whose return value (callNext) is
\* chosen by the transport.
ExecNext(ret) ==
    /\ loopPc = "next"
    /\ idx <= Len(commands)
    /\ finishMethod' = <<>>
    /\ execLog' = Append(execLog, [i |-> idx, cmd |-> commands[idx], ret |-> ret])
    /\ chan' = Append(chan, [st |-> "starting", res |-> 0, code |-> <<>>,
                              out |-> <<>>, err |-> <<>>, cont |-> FALSE])
    /\ mapperSt' = Append(mapperSt, "pending")
    /\ loopPc' = "wait"
    /\ UNCHANGED <<configVars, runVars, execResult, promiseSt, promiseVal,
                   sessionVars, endCalls, errCount, idx, results, contSeen,
                   chunks>>

\* mapSeries has gone through the whole array: its promise is resolved and
\* .then(() => results) resolves the promise of _runCommandSet.
MapSeriesDone ==
    /\ loopPc = "next"
    /\ idx > Len(commands)
    /\ loopPc' = RunCommandSetOutcome("resolved")
    /\ UNCHANGED <<configVars, runVars, execResult, promiseSt, promiseVal,
                   sessionVars, endCalls, errCount, idx, results, finishMethod,
                   mapperSt, chan, execLog, contSeen, chunks>>

\* Mutant of NewResult: a start error is not recorded in the result.
NewResultNoError(command, err) ==
    [command |-> command, success |-> TRUE, exitCode |-> <<>>,
     stdout |-> <<>>, stderr |-> <<>>, error |-> "none"]

\* The result object created by the exec callback.
NewResult(command, err) ==
    [command |-> command, success |-> ~err, exitCode |-> <<>>,
     stdout |-> <<>>, stderr |-> <<>>,
     error |-> IF err THEN "startError" ELSE "none"]

\* Mutant of StartOutcome: the promise of the command is resolved as soon
\* as the command has started.
StartOutcomeResolveOnStart(err) == IF err THEN "reject" ELSE "resolve"

\* What the exec callback does after pushing the result: reject on an
\* error, otherwise attach the stream listeners.
StartOutcome(err) == IF err THEN "reject" ELSE "listen"

\* Mutant of StartCallback: the result is put at the front of results
\* (unshift for push), which moves every earlier result up by one.
StartCallbackUnshift(i, err) ==
    /\ chan[i].st = "starting"
    /\ results' = <<NewResult(execLog[i].cmd, err)>> \o results
    /\ chan' = [k \in DOMAIN chan |->
                 IF k = i
                 THEN [chan[k] EXCEPT !.st = IF err THEN "failed" ELSE "open",
                                      !.res = 1]
                 ELSE [chan[k] EXCEPT !.res = IF @ = 0 THEN 0 ELSE @ + 1]]
    /\ IF err THEN SettleMapper(i, "rejected")
              ELSE UNCHANGED <<mapperSt, loopPc, idx>>
    /\ UNCHANGED <<configVars, runVars, execResult, promiseSt, promiseVal,
                   sessionVars, endCalls, errCount, finishMethod, execLog,
                   contSeen, chunks>>

\* Callback of client.exec for exec call i, with an error or a stream.
StartCallback(i, err) ==
    /\ chan[i].st = "starting"
    /\ results' = Append(results, NewResult(execLog[i].cmd, err))
    /\ CASE StartOutcome(err) = "reject" ->
              /\ chan' = [chan EXCEPT ![i].st = "failed", ![i].res = Len(results) + 1]
              /\ SettleMapper(i, "rejected")
         [] StartOutcome(err) = "listen" ->
              /\ chan' = [chan EXCEPT ![i].st = "open", ![i].res = Len(results) + 1]
              /\ UNCHANGED <<mapperSt, loopPc, idx>>
         [] OTHER ->
              /\ chan' = [chan EXCEPT ![i].st = "open", ![i].res = Len(results) + 1]
              /\ SettleMapper(i, "resolved")
    /\ UNCHANGED <<configVars, runVars, execResult, promiseSt, promiseVal,
                   sessionVars, endCalls, errCount, finishMethod, execLog,
                   contSeen, chunks>>

\* Mutant of CloseOutcome: `if (code)` for `if (code !== 0)`, so that an
\* undefined exit code counts as a success.
CloseOutcomeTruthy(code, cn) ==
    IF code # <<0>> /\ code # <<>> THEN "reject"
    ELSE IF cn THEN "resolve"
    ELSE "defer"

\* Mutant of CloseOutcome: the loop always waits for 'continue'.
CloseOutcomeAlwaysDefer(code, cn) ==
    IF code # <<0>> THEN "reject" ELSE "defer"

\* Mutant of CloseOutcome: callNext is looked at first, so a failing
\* command whose exec returned false waits for 'continue' as well.
CloseOutcomeDeferFirst(code, cn) ==
    IF ~cn THEN "defer"
    ELSE IF code # <<0>> THEN "reject"
    ELSE "resolve"

\* Mutant of CloseOutcome: the value exec returned is ignored.
CloseOutcomeIgnoreCallNext(code, cn) ==
    IF code # <<0>> THEN "reject" ELSE "resolve"

\* The branch the 'close' handler takes for exit code `code` when exec had
\* returned cn: reject on a code other than 0, resolve when callNext,
\* otherwise install _finishMethod.
CloseOutcome(code, cn) ==
    IF code # <<0>> THEN "reject"
    ELSE IF cn THEN "resolve"
    ELSE "defer"

\* stream.on('close', (code, signal) => ...) of exec call i.
StreamClose(i, code) ==
    /\ chan[i].st = "open"
    /\ chan' = [chan EXCEPT ![i].st = "closed", ![i].code = <<code>>]
    /\ LET r == chan[i].res
           out == CloseOutcome(code, execLog[i].ret)
       IN  CASE out = "reject" ->
                  /\ results' = [results EXCEPT ![r].exitCode = code,
                                                ![r].error = "nonZeroExit",
                                                ![r].success = FALSE]
                  /\ SettleMapper(i, "rejected")
                  /\ UNCHANGED finishMethod
             [] out = "resolve" ->
                  /\ results' = [results EXCEPT ![r].exitCode = code]
                  /\ SettleMapper(i, "resolved")
                  /\ UNCHANGED finishMethod
             [] OTHER ->
                  /\ results' = [results EXCEPT ![r].exitCode = code]
                  /\ finishMethod' = <<i>>
                  /\ UNCHANGED <<mapperSt, loopPc, idx>>
    /\ UNCHANGED <<configVars, runVars, execResult, promiseSt, promiseVal,
                   sessionVars, endCalls, errCount, execLog, contSeen, chunks>>

\* The payload of the next data event: the chunks of a run are numbered in
\* delivery order, so every chunk is distinct and a string is the
\* sequence of the chunks appended to it.
NextChunk == {chunks + 1}

\* Mutant of StdoutData: the chunk is put in front of the output so far.
StdoutDataPrepend(i, data) ==
    /\ chan[i].st \in {"open", "closed"}
    /\ chunks < MaxChunks
    /\ chunks' = chunks + 1
    /\ results' = [results EXCEPT ![chan[i].res].stdout = <<data>> \o @]
    /\ chan' = [chan EXCEPT ![i].out = Append(@, data)]
    /\ UNCHANGED <<configVars, runVars, execResult, promiseSt, promiseVal,
                   sessionVars, endCalls, errCount, loopPc, idx, finishMethod,
                   mapperSt, execLog, contSeen>>

\* stream.on('data', (data) => { result.stdout += data; }) of exec call i.
StdoutData(i, data) ==
    /\ chan[i].st \in {"open", "closed"}
    /\ chunks < MaxChunks
    /\ chunks' = chunks + 1
    /\ results' = [results EXCEPT ![chan[i].res].stdout = Append(@, data)]
    /\ chan' = [chan EXCEPT ![i].out = Append(@, data)]
    /\ UNCHANGED <<configVars, runVars, execResult, promiseSt, promiseVal,
                   sessionVars, endCalls, errCount, loopPc, idx, finishMethod,
                   mapperSt, execLog, contSeen>>

\* Mutant of StderrData: the chunk is appended to stdout.
StderrDataToStdout(i, data) ==
    /\ chan[i].st \in {"open", "closed"}
    /\ chunks < MaxChunks
    /\ chunks' = chunks + 1
    /\ results' = [results EXCEPT ![chan[i].res].stdout = Append(@, data)]
    /\ chan' = [chan EXCEPT ![i].err = Append(@, data)]
    /\ UNCHANGED <<configVars, runVars, execResult, promiseSt, promiseVal,
                   sessionVars, endCalls, errCount, loopPc, idx, finishMethod,
                   mapperSt, execLog, contSeen>>

\* stream.stderr.on('data', (data) => { result.stderr += data; }).
StderrData(i, data) ==
    /\ chan[i].st \in {"open", "closed"}
    /\ chunks < MaxChunks
    /\ chunks' = chunks + 1
    /\ results' = [results EXCEPT ![chan[i].res].stderr = Append(@, data)]
    /\ chan' = [chan EXCEPT ![i].err = Append(@, data)]
    /\ UNCHANGED <<configVars, runVars, execResult, promiseSt, promiseVal,
                   sessionVars, endCalls, errCount, loopPc, idx, finishMethod,
                   mapperSt, execLog, contSeen>>

\* ------------------------------------------------------------ aggregation
\* Mutant of CountSuccess: every result is counted as a success.
CountSuccessAll(rs) == Len(rs)

\* Mutant of CountSuccess: only the first result is looked at.
CountSuccessFirstOnly(rs) ==
    IF rs # <<>> /\ Head(rs).success THEN 1 ELSE 0

RECURSIVE CountSuccess(_)
CountSuccess(rs) ==
    IF rs = <<>> THEN 0
    ELSE (IF Head(rs).success THEN 1 ELSE 0) + CountSuccess(Tail(rs))

\* Mutant of CountFailure: every result is counted as a failure.
CountFailureAll(rs) == Len(rs)

RECURSIVE CountFailure(_)
CountFailure(rs) ==
    IF rs = <<>> THEN 0
    ELSE (IF Head(rs).success THEN 0 ELSE 1) + CountFailure(Tail(rs))

\* Mutant of Tally: resolve(execResult) is missing from the .then.
TallyNoResolve ==
    /\ loopPc = "settled"
    /\ execResult' = [execResult EXCEPT
                        !.successCount = @ + CountSuccess(results),
                        !.failureCount = @ + CountFailure(results),
                        !.linked = TRUE]
    /\ loopPc' = "finally"
    /\ UNCHANGED <<configVars, runVars, sessionVars, endCalls, errCount, idx,
                   results, finishMethod, mapperSt, chan, execLog, contSeen,
                   chunks, promiseSt, promiseVal>>

\* .then((results) => ...) of the ready handler: the tally, then
\* execResult.results = results (the same array object) and
\* resolve(execResult).
Tally ==
    /\ loopPc = "settled"
    /\ execResult' = [execResult EXCEPT
                        !.successCount = @ + CountSuccess(results),
                        !.failureCount = @ + CountFailure(results),
                        !.linked = TRUE]
    /\ SettleRun("resolved", "summary")
    /\ loopPc' = "finally"
    /\ UNCHANGED <<configVars, runVars, sessionVars, endCalls, errCount, idx,
                   results, finishMethod, mapperSt, chan, execLog, contSeen,
                   chunks>>

\* Mutant of Finally: the session is not ended.
FinallyNoEnd ==
    /\ loopPc = "finally"
    /\ SettleRun("resolved", "undefined")
    /\ loopPc' = "done"
    /\ UNCHANGED <<configVars, runVars, execResult, sessionVars, errCount,
                   idx, results, finishMethod, mapperSt, chan, execLog,
                   contSeen, chunks, endCalls>>

\* .finally((execResult) => { resolve(execResult); client.end(); }): the
\* callback of finally gets no argument.
Finally ==
    /\ loopPc = "finally"
    /\ SettleRun("resolved", "undefined")
    /\ endCalls' = endCalls + 1
    /\ loopPc' = "done"
    /\ UNCHANGED <<configVars, runVars, execResult, sessionVars, errCount,
                   idx, results, finishMethod, mapperSt, chan, execLog,
                   contSeen, chunks>>

\* ----------------------------------------------------------- specification
Next ==
    \/ Run
    \/ \E err \in BOOLEAN : ReadFileCallback(err)
    \/ OptionsSettled
    \/ TransportReady
    \/ TransportError
    \/ Continue
    \/ \E ret \in BOOLEAN : ExecNext(ret)
    \/ MapSeriesDone
    \/ \E i \in DOMAIN chan, err \in BOOLEAN : StartCallback(i, err)
    \/ \E i \in DOMAIN chan, code \in CloseCodes : StreamClose(i, code)
    \/ \E i \in DOMAIN chan, data \in NextChunk : StdoutData(i, data)
    \/ \E i \in DOMAIN chan, data \in NextChunk : StderrData(i, data)
    \/ Tally
    \/ Finally

Spec == Init /\ [][Next]_vars

\* The configured client on its own: getConnectionOptions() is called
\* directly, any number of times, and the calls may overlap.
InitOptions == Init /\ arg = [kind |-> "array", str |-> "", arr |-> <<>>]

NextOptions ==
    \/ GetConnectionOptions
    \/ \E c \in DOMAIN calls, err \in BOOLEAN : ReadFileDone(c, err)

SpecOptions == InitOptions /\ [][NextOptions]_vars

\* The constructor on its own: new RemoteClient(options) for every
\* options value of CtorInputs.
InitCtor ==
    /\ ctorIn \in CtorInputs
    /\ ctorOut = "none"
    /\ auth = "none"
    /\ arg = [kind |-> "array", str |-> "", arr |-> <<>>]
    /\ InitEngine

NextCtor == Construct

SpecCtor == InitCtor /\ [][NextCtor]_vars

\* Two calls of run() on one client, the second made before the first has
\* ended.  The actions above are the handlers of the call looked at;
\* Switch turns to the other call, so that the handlers and events of the
\* two calls interleave in every order.  Both calls are given the same
\* one-command list; the transport delivers no 'error' event and its data
\* on standard output only.

\* Mutant of Switch: _finishMethod is one slot shared by the calls (a
\* field of the client) instead of a local of each _runCommandSet call.
SwitchSharedFinishMethod ==
    /\ other' = [perRun EXCEPT ![16] = other[16]]
    /\ pc' = other[1]
    /\ options' = other[2]
    /\ commands' = other[3]
    /\ execResult' = other[4]
    /\ promiseSt' = other[5]
    /\ promiseVal' = other[6]
    /\ session' = other[7]
    /\ connectCalls' = other[8]
    /\ clients' = other[9]
    /\ connLog' = other[10]
    /\ endCalls' = other[11]
    /\ errCount' = other[12]
    /\ loopPc' = other[13]
    /\ idx' = other[14]
    /\ results' = other[15]
    /\ mapperSt' = other[17]
    /\ chan' = other[18]
    /\ execLog' = other[19]
    /\ contSeen' = other[20]
    /\ runRead' = other[21]
    /\ runOpts' = other[22]
    /\ UNCHANGED <<ctorIn, ctorOut, arg, auth, privateKeyData, reads, calls,
                   readOk, chunks, finishMethod>>

\* The other call of run() becomes the one looked at.  What is exchanged
\* is what each call holds in locals of run() and _runCommandSet; the
\* fields of the client stay.
Switch ==
    /\ other' = perRun
    /\ pc' = other[1]
    /\ options' = other[2]
    /\ commands' = other[3]
    /\ execResult' = other[4]
    /\ promiseSt' = other[5]
    /\ promiseVal' = other[6]
    /\ session' = other[7]
    /\ connectCalls' = other[8]
    /\ clients' = other[9]
    /\ connLog' = other[10]
    /\ endCalls' = other[11]
    /\ errCount' = other[12]
    /\ loopPc' = other[13]
    /\ idx' = other[14]
    /\ results' = other[15]
    /\ finishMethod' = other[16]
    /\ mapperSt' = other[17]
    /\ chan' = other[18]
    /\ execLog' = other[19]
    /\ contSeen' = other[20]
    /\ runRead' = other[21]
    /\ runOpts' = other[22]
    /\ UNCHANGED <<ctorIn, ctorOut, arg, auth, privateKeyData, reads, calls,
                   readOk, chunks>>

InitTwo ==
    /\ Init
    /\ arg = [kind |-> "array", str |-> "", arr |-> CmdList(1)]
    /\ auth \in {"password", "key"}

NextTwo ==
    \/ Switch
    \/ Run
    \/ \E err \in BOOLEAN : ReadFileCallback(err)
    \/ OptionsSettled
    \/ TransportReady
    \/ Continue
    \/ \E ret \in BOOLEAN : ExecNext(ret)
    \/ MapSeriesDone
    \/ \E i \in DOMAIN chan, err \in BOOLEAN : StartCallback(i, err)
    \/ \E i \in DOMAIN chan, code \in CloseCodes : StreamClose(i, code)
    \/ \E i \in DOMAIN chan, data \in NextChunk : StdoutData(i, data)
    \/ Tally
    \/ Finally

SpecTwo == InitTwo /\ [][NextTwo]_vars

\* The results array the caller sees in the summary it was given.
SummaryResults == IF execResult.linked THEN results ELSE <<>>

TypeOK ==
    /\ pc \in {"start", "threw", "options", "session", "failed"}
    /\ options \in {"none", "reading", "resolved", "rejected"}
    /\ promiseSt \in {"none", "pending", "resolved", "rejected"}
    /\ promiseVal \in {"none", "summary", "undefined", "transportError", "storageError"}
    /\ session \in {"none", "connecting", "ready"}
    /\ loopPc \in {"none", "next", "wait", "settled", "finally", "done"}
    /\ Len(results) <= Len(execLog)
    /\ Len(chan) = Len(execLog)
    /\ Len(mapperSt) = Len(execLog)
    /\ chunks <= MaxChunks
    /\ errCount <= MaxErrors

\* ------------------------------------------------------ derived predicates
Delivered == promiseSt = "resolved" /\ promiseVal = "summary"

Succeeded(rs) == {k \in DOMAIN rs : rs[k].success}
Failed(rs) == {k \in DOMAIN rs : ~rs[k].success}

\* The chain of the ready handler has a callback waiting to run.
HopPending == loopPc \in {"next", "settled", "finally"}

\* The transport has delivered what it owes for every exec call: the start
\* callback, the close event of a started command, and a 'continue' after
\* an exec call that returned false.
OwedDelivered ==
    \A k \in DOMAIN execLog :
        /\ chan[k].st \in {"closed", "failed"}
        /\ ~execLog[k].ret => k \in contSeen

\* ------------------------------------------------------------------ C1
\* C1: exec is called on the commands in list order, and exec for command
\* k+1 is never called before the close event of command k was handled.
Inv_C1 ==
    \A k \in DOMAIN execLog :
        /\ execLog[k].i = k
        /\ execLog[k].cmd = commands[k]
        /\ k > 1 => chan[k - 1].st = "closed"

Wit_C1 ==
    /\ Len(execLog) = 2
    /\ chan[1].st = "closed"
    /\ chan[2].st = "starting"

\* ------------------------------------------------------------------ C2
\* C2: a failed command (start error or exit code other than 0) is the
\* last entry of results, and no exec call was made after its own.
Inv_C2 ==
    \A k \in DOMAIN results :
        ~results[k].success => k = Len(results) /\ Len(execLog) = k

Wit_C2 ==
    /\ loopPc = "done"
    /\ Len(commands) = 2
    /\ Len(results) = 1
    /\ ~results[1].success

\* ------------------------------------------------------------------ C3
\* C3: when exec returned false for command k and command k closed with
\* exit code 0, the loop stays at command k (no further exec call) for as
\* long as no 'continue' was delivered after that exec call.
Inv_C3 ==
    \A k \in DOMAIN execLog :
        ( /\ ~execLog[k].ret
          /\ chan[k].st = "closed"
          /\ results[chan[k].res].exitCode = <<0>>
          /\ k \notin contSeen )
        => Len(execLog) = k /\ loopPc = "wait" /\ idx = k

Wit_C3 ==
    /\ Len(execLog) = 2
    /\ ~execLog[1].ret
    /\ results[1].exitCode = <<0>>
    /\ 1 \in contSeen

\* ------------------------------------------------------------------ C4
\* C4: wherever 'continue' events fall, every command is submitted at most
\* once and none is skipped; when the loop has ended with every command
\* successful, the number of exec calls is the number of commands.
Inv_C4 ==
    /\ \A j, k \in DOMAIN execLog : execLog[j].i = execLog[k].i => j = k
    /\ \A k \in DOMAIN execLog : \A j \in 1..(execLog[k].i - 1) :
          \E m \in DOMAIN execLog : execLog[m].i = j
    /\ ( /\ loopPc \in {"settled", "finally", "done"}
         /\ Failed(results) = {} )
       => Len(execLog) = Len(commands)

Wit_C4 ==
    /\ loopPc = "done"
    /\ Len(commands) = 2
    /\ Failed(results) = {}
    /\ contSeen = {1, 2}
    /\ execLog[1].ret /\ ~execLog[2].ret

\* ------------------------------------------------------------------ C5
\* C5: a command failure does not reject the promise of run(): without a
\* transport 'error' event the promise is not rejected once the session
\* exists, and when the chain has ended after a failed command the promise
\* is resolved with the summary, whose results end with the failed command.
Inv_C5 ==
    /\ (session # "none" /\ errCount = 0) => promiseSt # "rejected"
    /\ (loopPc = "done" /\ errCount = 0 /\ Failed(results) # {})
       => /\ Delivered
          /\ SummaryResults = results
          /\ Failed(SummaryResults) = {Len(results)}
          /\ execResult.failureCount = 1

Wit_C5 ==
    /\ loopPc = "done"
    /\ errCount = 0
    /\ Len(commands) = 2
    /\ Len(results) = 2
    /\ results[2].error = "nonZeroExit"
    /\ Delivered

\* ------------------------------------------------------------------ C6
\* C6: in a delivered summary successCount is the number of successful
\* results, failureCount the number of failed ones, their sum is
\* len(results), and len(results) <= commandCount.
Inv_C6 ==
    Delivered =>
        /\ execResult.successCount = Cardinality(Succeeded(SummaryResults))
        /\ execResult.failureCount = Cardinality(Failed(SummaryResults))
        /\ execResult.successCount + execResult.failureCount = Len(SummaryResults)
        /\ Len(SummaryResults) <= execResult.commandCount

Wit_C6 ==
    /\ Delivered
    /\ execResult.successCount = 1
    /\ execResult.failureCount = 1

\* ------------------------------------------------------------------ C7
\* C7: when every command started and closed with exit code 0, the
\* delivered summary has len(results) = commandCount, successCount =
\* commandCount and failureCount = 0.
Inv_C7 ==
    ( /\ Delivered
      /\ \A k \in DOMAIN results : results[k].exitCode = <<0>> )
    => /\ execResult.commandCount = Len(commands)
       /\ Len(SummaryResults) = execResult.commandCount
       /\ execResult.successCount = execResult.commandCount
       /\ execResult.failureCount = 0

Wit_C7 ==
    /\ Delivered
    /\ execResult.commandCount = 2
    /\ \A k \in DOMAIN results : results[k].exitCode = <<0>>
    /\ Len(results) = 2

\* ------------------------------------------------------------------ C8
\* C8: once the session is ready the promise of run() settles when the
\* transport has delivered every start callback and close event and a
\* 'continue' after every exec call that returned false: no state exists
\* in which all of that was delivered, no callback is left to run and the
\* promise is still pending.
Claim_C8 ==
    (session = "ready" /\ ~HopPending /\ OwedDelivered)
    => promiseSt \in {"resolved", "rejected"}

\* ------------------------------------------------------------------ C9
\* C9 as stated: once the transport signalled ready, the promise of run()
\* is never rejected.
Orig_C9 == session = "ready" => promiseSt # "rejected"

\* C9 amended: once the transport signalled ready, the promise of run() is
\* rejected only by a transport 'error' event (with that error), never by
\* a command-level event; when it resolves, it resolves with the summary.
Inv_C9 ==
    session = "ready" =>
        /\ promiseSt = "rejected" => errCount > 0 /\ promiseVal = "transportError"
        /\ promiseSt = "resolved" => promiseVal = "summary"

Wit_C9 ==
    /\ session = "ready"
    /\ promiseSt = "rejected"
    /\ loopPc = "done"
    /\ Failed(results) # {}

\* ------------------------------------------------------------------ C10
\* C10: end() is called exactly once during a run whose session became
\* ready: never twice, and once when the chain of the ready handler has
\* ended.
Claim_C10 ==
    session = "ready" =>
        /\ endCalls <= 1
        /\ loopPc = "done" => endCalls = 1

\* ------------------------------------------------------------------ C11
\* C11: when the transport emits 'error' before 'ready', the promise of
\* run() is rejected with that error, no summary is produced and exec is
\* not called.  (The transport does not emit 'ready' after an 'error'.)
Inv_C11 ==
    (errCount > 0 /\ session = "connecting")
    => /\ promiseSt = "rejected"
       /\ promiseVal = "transportError"
       /\ ~execResult.linked
       /\ execResult.successCount = 0 /\ execResult.failureCount = 0
       /\ execLog = <<>>
       /\ loopPc = "none"

Wit_C11 ==
    /\ errCount = 1
    /\ session = "connecting"
    /\ promiseSt = "rejected"
    /\ Len(commands) = 2

\* ------------------------------------------------------------------ C12
\* C12: when commands is neither a string nor an array, run() throws
\* before getConnectionOptions() is called: no promise is returned, no key
\* is read, and no session is constructed, connected or used.
Inv_C12 ==
    (arg.kind \notin {"string", "array"} /\ pc # "start")
    => /\ pc = "threw"
       /\ options = "none"
       /\ reads = 0
       /\ promiseSt = "none"
       /\ session = "none"
       /\ connectCalls = 0
       /\ endCalls = 0
       /\ execLog = <<>>

Wit_C12 ==
    /\ pc = "threw"
    /\ arg.kind = "number"

\* ------------------------------------------------------------------ C13
\* The exec calls whose command failed: a start error, or a close with a
\* code other than 0.
FailedCalls ==
    {k \in DOMAIN chan :
        \/ chan[k].st = "failed"
        \/ chan[k].st = "closed" /\ chan[k].code # << <<0>> >>}

\* C13: when command f is the first to fail, after f-1 commands that
\* closed with exit code 0, the delivered summary has commandCount = n,
\* successCount = f-1, failureCount = 1 and len(results) = f.
Inv_C13 ==
    (Delivered /\ FailedCalls # {})
    => LET f == CHOOSE k \in FailedCalls : \A j \in FailedCalls : k <= j
       IN  /\ \A j \in 1..(f - 1) : chan[j].code = << <<0>> >>
           /\ execResult.commandCount = Len(commands)
           /\ execResult.successCount = f - 1
           /\ execResult.failureCount = 1
           /\ Len(SummaryResults) = f

Wit_C13 ==
    /\ Delivered
    /\ FailedCalls = {2}
    /\ chan[2].st = "failed"
    /\ execResult.successCount = 1

\* ------------------------------------------------------------------ C14
\* C14: after a close with exit code c the result has exitCode = c; with
\* c other than 0 it has success = false and an error, with c = 0 it has
\* success = true and no error.
Inv_C14 ==
    \A k \in DOMAIN chan :
        chan[k].st = "closed" =>
            LET r == results[chan[k].res]
                c == chan[k].code[1]
            IN  /\ r.exitCode = c
                /\ c # <<0>> => ~r.success /\ r.error = "nonZeroExit"
                /\ c = <<0>> => r.success /\ r.error = "none"

Wit_C14 ==
    /\ Len(chan) = 2
    /\ chan[1].code = << <<0>> >>
    /\ chan[2].code = << <<>> >>

\* ------------------------------------------------------------------ C15
\* C15: a start error leaves a result for its command in results, with
\* success = false, the start error as error and no exitCode, and that
\* result is in the summary run() resolves with.
Inv_C15 ==
    \A k \in DOMAIN chan :
        chan[k].st = "failed" =>
            LET r == chan[k].res
                expected == [command |-> commands[k], success |-> FALSE,
                             exitCode |-> <<>>, stdout |-> <<>>,
                             stderr |-> <<>>, error |-> "startError"]
            IN  /\ r \in DOMAIN results
                /\ results[r] = expected
                /\ Delivered => r \in DOMAIN SummaryResults
                                /\ SummaryResults[r] = expected
                /\ (loopPc = "done" /\ errCount = 0) => Delivered

Wit_C15 ==
    /\ Delivered
    /\ Len(commands) = 2
    /\ chan[1].st = "failed"
    /\ loopPc = "done"

\* ------------------------------------------------------------------ C16
\* C16: stdout of a command is the concatenation, in arrival order, of
\* the chunks delivered on its stream, and stderr that of the chunks
\* delivered on its stderr stream.
Inv_C16 ==
    \A k \in DOMAIN chan :
        chan[k].res # 0 =>
            /\ results[chan[k].res].stdout = chan[k].out
            /\ results[chan[k].res].stderr = chan[k].err

Wit_C16 ==
    /\ Len(results) = 1
    /\ results[1].stdout = <<1, 2>>

\* ------------------------------------------------------------------ C17
\* C17: results is in submission order: the i-th result, in every state
\* and in the summary, is the result of the i-th command of the list.
Inv_C17 ==
    /\ \A i \in DOMAIN results : results[i].command = commands[i]
    /\ \A i \in DOMAIN SummaryResults : SummaryResults[i].command = commands[i]
    /\ \A k \in DOMAIN chan : chan[k].res # 0 => chan[k].res = k

Wit_C17 ==
    /\ Len(results) = 2
    /\ results[1].command # results[2].command
    /\ execResult.linked

\* ------------------------------------------------------------------ C18
\* C18: run("c") behaves as run(["c"]): the command array is the
\* one-element array of the string, as for the array argument, so that
\* commandCount is 1 and exec is called once, with the string.
Inv_C18 ==
    (checkString(arg) /\ pc # "start")
    => /\ pc # "threw"
       /\ commands = <<arg.str>>
       /\ commands = Normalise([kind |-> "array", str |-> "", arr |-> <<arg.str>>]).arr
       /\ execResult.commandCount = 1
       /\ \A k \in DOMAIN execLog : k = 1 /\ execLog[k].cmd = arg.str
       /\ loopPc \in {"wait", "settled", "finally", "done"} => Len(execLog) = 1

Wit_C18 ==
    /\ checkString(arg)
    /\ Delivered
    /\ loopPc = "done"
    /\ Len(execLog) = 1

\* ------------------------------------------------------------------ C19
\* C19: when exec returned true for command k and command k closed with
\* exit code 0, its promise is resolved by the close handler itself: the
\* loop does not wait at command k and no resume action is installed.
Inv_C19 ==
    \A k \in DOMAIN execLog :
        (execLog[k].ret /\ chan[k].st = "closed" /\ chan[k].code = << <<0>> >>)
        => /\ mapperSt[k] = "resolved"
           /\ finishMethod # <<k>>
           /\ loopPc = "wait" => Len(execLog) > k

Wit_C19 ==
    /\ Len(execLog) = 2
    /\ execLog[1].ret
    /\ contSeen = {}

\* ------------------------------------------------------------------ C20
\* C20: a getConnectionOptions() call started after a read of the key file
\* has completed successfully reads nothing and resolves with key data.
Claim_C20 ==
    \A c \in DOMAIN calls :
        calls[c].after =>
            /\ calls[c].rid = 0
            /\ calls[c].st = "resolved"
            /\ calls[c].opts.privateKey # 0

\* ------------------------------------------------------------------ C21
\* C21: when run() started a read of the key file and the read failed
\* (the read is over and no key data was stored), getConnectionOptions()
\* is rejected, and run() rejects with the storage error: no session is
\* constructed, connect and exec are not called, and the promise is never
\* resolved.
Inv_C21 ==
    (runRead # 0 /\ options # "reading" /\ privateKeyData = 0)
    => /\ options = "rejected"
       /\ clients = 0
       /\ connectCalls = 0
       /\ session = "none"
       /\ execLog = <<>>
       /\ promiseSt \in {"pending", "rejected"}
       /\ pc \in {"options", "failed"}
       /\ pc = "failed" => promiseSt = "rejected" /\ promiseVal = "storageError"

Wit_C21 ==
    /\ auth = "key+password"
    /\ runRead = 1
    /\ pc = "failed"
    /\ promiseVal = "storageError"
    /\ Len(commands) = 2

\* ------------------------------------------------------------------ C22
\* C22: the options a getConnectionOptions() call resolves with carry one
\* credential.  With only a password configured: the password, no private
\* key, no passphrase, and no read of the key file is made.  With a
\* private key configured: the key data of a read, no password, and as
\* passphrase the configured password when there is one, none otherwise.
Inv_C22 ==
    /\ auth = "password" => reads = 0
    /\ \A c \in DOMAIN calls :
        calls[c].st = "resolved" =>
            LET o == calls[c].opts IN
            /\ (o.password # "none") # (o.privateKey # 0)
            /\ auth = "password" =>
                  /\ o.password = "pw"
                  /\ o.passphrase = "none"
                  /\ calls[c].rid = 0
            /\ auth # "password" =>
                  /\ o.privateKey \in 1..reads
                  /\ calls[c].rid # 0 => o.privateKey = calls[c].rid
                  /\ o.passphrase = IF auth = "key+password" THEN "pw" ELSE "none"

Wit_C22 ==
    /\ auth = "key+password"
    /\ Len(calls) = 2
    /\ calls[1].st = "resolved" /\ calls[1].rid = 1
    /\ calls[2].st = "resolved" /\ calls[2].rid = 0
    /\ calls[2].opts.privateKey = 1
    /\ calls[2].opts.passphrase = "pw"

\* ------------------------------------------------------------------ C23
\* C23: new RemoteClient(options) throws an argument error when host or
\* username is not a non-empty string (or options is no object), or when
\* neither password nor privateKey is a non-empty string; otherwise it
\* constructs the client, which then holds a password or a key reference.
Inv_C23 ==
    ctorOut # "none" =>
        LET named == /\ ctorIn.kind = "object"
                     /\ ctorIn.host = "string"
                     /\ ctorIn.username = "string"
            credential == ctorIn.password = "string" \/ ctorIn.privateKey = "string"
        IN  /\ (ctorOut = "constructed") <=> (named /\ credential)
            /\ ctorOut # "constructed" =>
                  /\ ctorOut \in {"ArgError:options", "ArgError:host",
                                  "ArgError:username", "ArgError:credentials"}
                  /\ auth = "none"
            /\ ctorOut = "constructed" =>
                  /\ auth \in AuthModes
                  /\ (auth # "key") <=> (ctorIn.password = "string")
                  /\ (auth # "password") <=> (ctorIn.privateKey = "string")

Wit_C23 ==
    /\ ctorOut = "constructed"
    /\ auth = "key"
    /\ ctorIn.password = "empty"
    /\ pc = "start"

\* ------------------------------------------------------------------ C24
\* C24: for a valid commands argument run() constructs no session before
\* getConnectionOptions() has resolved; it then constructs one session and
\* calls connect once, with the 'ready' and 'error' handlers attached and
\* with the options getConnectionOptions() resolved with.
Inv_C24 ==
    /\ clients <= 1
    /\ connectCalls = clients
    /\ Len(connLog) = connectCalls
    /\ (pc \in {"start", "threw", "options", "failed"}) <=> (clients = 0)
    /\ clients = 1 =>
          /\ options = "resolved"
          /\ session # "none"
          /\ connLog[1].handlers = {"ready", "error"}
          /\ connLog[1].opts = runOpts
          /\ IF auth = "password"
             THEN runOpts.password = "pw" /\ runOpts.privateKey = 0
             ELSE /\ runOpts.password = "none"
                  /\ runRead # 0
                  /\ runOpts.privateKey = runRead

Wit_C24 ==
    /\ auth = "key"
    /\ clients = 1
    /\ connLog[1].opts.privateKey = 1
    /\ loopPc = "done"
    /\ Len(execLog) = 2
    /\ errCount = 0

\* ------------------------------------------------------------------ C25
\* C25: once a transport 'error' event has been handled, exec is not
\* called again in that run.
Claim_C25 == [][errCount > 0 => execLog' = execLog]_vars

\* ------------------------------------------------------------------ C26
\* C26: the promise of run() is not resolved with the summary before
\* end() has been called on the session.
Claim_C26 == Delivered => endCalls >= 1

\* ------------------------------------------------------------------ C27
\* C27: no step changes the result object of a command whose close event
\* has been handled.
Claim_C27 ==
    [][\A k \in DOMAIN chan :
          chan[k].st = "closed" => results'[chan[k].res] = results[chan[k].res]]_vars

\* ------------------------------------------------------------------ C28
\* C28: _finishMethod is unset whenever the mapper is about to call exec
\* and while a later command is in flight; it is set only for a command
\* whose exec returned false and which closed with exit code 0, and only
\* until the first 'continue' after that close, which resolves the promise
\* of that command and unsets it, so it cannot be invoked a second time.
Inv_C28 ==
    /\ loopPc = "next" => finishMethod = <<>>
    /\ finishMethod # <<>> =>
          LET k == finishMethod[1] IN
          /\ k = Len(execLog)
          /\ ~execLog[k].ret
          /\ chan[k].st = "closed"
          /\ chan[k].code = << <<0>> >>
          /\ ~chan[k].cont
          /\ mapperSt[k] = "pending"
          /\ loopPc = "wait"
    /\ \A k \in DOMAIN execLog :
          (session = "ready" /\ chan[k].cont /\ chan[k].code = << <<0>> >>)
          => mapperSt[k] = "resolved" /\ finishMethod # <<k>>

Wit_C28 ==
    /\ Len(execLog) = 2
    /\ ~execLog[1].ret
    /\ chan[1].cont
    /\ mapperSt[1] = "resolved"
    /\ finishMethod = <<2>>
    /\ errCount = 0

\* ------------------------------------------------------------------ C29
\* C29: while the last command of the list, whose exec returned false, has
\* closed with exit code 0 and no 'continue' has arrived since that close,
\* the chain of the ready handler waits: it has not called end() (every
\* end() call so far was made by the 'error' handler) and the promise of
\* run() is not resolved.
Inv_C29 ==
    LET n == Len(commands) IN
    (/\ n >= 1
     /\ Len(execLog) = n
     /\ ~execLog[n].ret
     /\ chan[n].st = "closed"
     /\ chan[n].code = << <<0>> >>
     /\ ~chan[n].cont)
    => /\ loopPc = "wait"
       /\ finishMethod = <<n>>
       /\ endCalls = errCount
       /\ promiseSt # "resolved"
       /\ ~execResult.linked

Wit_C29 ==
    /\ Len(commands) = 2
    /\ Len(execLog) = 2
    /\ ~execLog[2].ret
    /\ chan[2].st = "closed"
    /\ chan[2].code = << <<0>> >>
    /\ ~chan[2].cont
    /\ contSeen = {1, 2}
    /\ endCalls = 0

\* ------------------------------------------------------------------ C30
\* C30 as stated: once a transport 'error' event was handled, end() has
\* been called, the promise of run() is rejected with that error, and
\* connect was called only once.
Orig_C30 ==
    errCount > 0 =>
        /\ endCalls >= 1
        /\ promiseSt = "rejected" /\ promiseVal = "transportError"
        /\ connectCalls = 1

\* C30 amended: every transport 'error' event makes the engine call end()
\* (one end() call per event, besides the one of the finally callback) and
\* connect is called only once; the promise of run() is rejected with the
\* error unless it was resolved with the summary before the event, in
\* which case it keeps the summary.
Inv_C30 ==
    /\ endCalls = errCount + (IF loopPc = "done" THEN 1 ELSE 0)
    /\ errCount > 0 =>
          /\ connectCalls = 1 /\ clients = 1
          /\ promiseSt \in {"rejected", "resolved"}
          /\ promiseSt = "rejected" => promiseVal = "transportError"
          /\ promiseSt = "resolved" =>
                promiseVal = "summary" /\ loopPc \in {"finally", "done"}
          /\ loopPc \notin {"finally", "done"} => promiseSt = "rejected"

Wit_C30 ==
    /\ errCount = 1
    /\ endCalls = 1
    /\ connectCalls = 1
    /\ promiseSt = "rejected"
    /\ promiseVal = "transportError"
    /\ loopPc = "wait"
    /\ Len(execLog) = 1

\* ------------------------------------------------------------------ C31
\* C31: an array argument that contains an element that is not a string
\* makes run() throw, and no exec call is ever given a value that is not
\* a string.
Claim_C31 ==
    /\ (arg.kind = "array" /\ pc # "start"
        /\ \E i \in DOMAIN arg.arr : ~IsStringElement(arg.arr[i]))
       => pc = "threw"
    /\ \A k \in DOMAIN execLog : IsStringElement(execLog[k].cmd)

\* ------------------------------------------------------------------ C32
\* C32: when exec returned false for a command and the command failed (a
\* start error or a close with a code other than 0), its promise is
\* rejected at once: the chain does not wait, _finishMethod is not set, no
\* further command is submitted, and without a transport error the
\* summary is delivered once the tally has run.
Inv_C32 ==
    \A k \in FailedCalls :
        ~execLog[k].ret =>
            /\ mapperSt[k] = "rejected"
            /\ finishMethod = <<>>
            /\ k = Len(execLog)
            /\ loopPc \in {"settled", "finally", "done"}
            /\ (loopPc \in {"finally", "done"} /\ errCount = 0) => Delivered

Wit_C32 ==
    /\ Len(commands) = 2
    /\ Len(execLog) = 1
    /\ ~execLog[1].ret
    /\ chan[1].st = "closed"
    /\ chan[1].code = << <<1>> >>
    /\ contSeen = {}
    /\ loopPc = "done"
    /\ Delivered

\* ------------------------------------------------------------------ C33
\* The exec calls whose command is outstanding: the start callback or the
\* close event has not been handled yet.
Outstanding == {k \in DOMAIN chan : chan[k].st \in {"starting", "open"}}

\* C33: at most one command is outstanding; len(results) <= number of
\* exec calls <= commandCount; and one result exists per exec call whose
\* start callback was delivered, holding the command of that call.
Inv_C33 ==
    /\ Cardinality(Outstanding) <= 1
    /\ Outstanding \subseteq {Len(execLog)}
    /\ Len(results) <= Len(execLog)
    /\ pc = "session" => Len(execLog) <= execResult.commandCount
    /\ Len(results) = Cardinality({k \in DOMAIN chan : chan[k].st # "starting"})
    /\ \A k \in DOMAIN chan :
          chan[k].st # "starting" =>
              /\ chan[k].res \in DOMAIN results
              /\ results[chan[k].res].command = execLog[k].cmd
              /\ \A j \in DOMAIN chan :
                    (j # k /\ chan[j].st # "starting") => chan[j].res # chan[k].res

Wit_C33 ==
    /\ Len(execLog) = 2
    /\ chan[1].st = "closed"
    /\ chan[2].st = "open"
    /\ Len(results) = 2
    /\ execResult.commandCount = 2
    /\ chunks = 0

\* ------------------------------------------------------------------ C34
\* C34: in a delivered summary failureCount is 0 or 1, every result but
\* the last is a success with exit code 0, and failureCount is 1 exactly
\* when the last result is a failure.
Inv_C34 ==
    Delivered =>
        LET rs == SummaryResults
            n == Len(rs)
        IN  /\ execResult.failureCount \in {0, 1}
            /\ \A i \in 1..(n - 1) : rs[i].success /\ rs[i].exitCode = <<0>>
            /\ (execResult.failureCount = 1) <=> (n > 0 /\ ~rs[n].success)

Wit_C34 ==
    /\ Delivered
    /\ Len(SummaryResults) = 2
    /\ SummaryResults[1].success
    /\ ~SummaryResults[2].success
    /\ SummaryResults[2].error = "nonZeroExit"
    /\ execResult.failureCount = 1

\* ------------------------------------------------------------------ C35
\* C35: run([]) connects; exec is never called and the chain never waits
\* for a 'continue'; when the chain has ended it has called end() once
\* (besides the end() calls of the 'error' handler), and the summary it
\* delivers has commandCount, successCount and failureCount 0 and no
\* results.  Without a transport error the summary is delivered.
Inv_C35 ==
    (arg.kind = "array" /\ arg.arr = <<>> /\ pc # "start") =>
        /\ pc \in {"options", "session", "failed"}
        /\ pc = "session" => connectCalls = 1
        /\ execLog = <<>>
        /\ results = <<>>
        /\ loopPc # "wait"
        /\ finishMethod = <<>>
        /\ execResult.commandCount = 0
        /\ execResult.successCount = 0
        /\ execResult.failureCount = 0
        /\ loopPc = "done" => endCalls = 1 + errCount
        /\ (loopPc \in {"finally", "done"} /\ errCount = 0) =>
              Delivered /\ SummaryResults = <<>> /\ execResult.linked

Wit_C35 ==
    /\ arg.kind = "array"
    /\ arg.arr = <<>>
    /\ connectCalls = 1
    /\ loopPc = "done"
    /\ Delivered
    /\ endCalls = 1
    /\ auth = "key"

\* ------------------------------------------------------------------ C36
\* C36: with two overlapping calls of run(), each call has a session of
\* its own, and its resume slot, worklist, results and counts follow from
\* the events of that session alone: _finishMethod is set only by a close
\* of its own command, a command's promise is resolved only by its own
\* close (and 'continue'), and every result holds the command, the exit
\* code and the output chunks of its own exec call.  (Either call may be
\* the one looked at, so this is stated for both.)
Inv_C36 ==
    /\ clients <= 1
    /\ connectCalls = clients
    /\ (session # "none") <=> (clients = 1)
    /\ Len(execLog) <= Len(commands)
    /\ finishMethod # <<>> =>
          LET k == finishMethod[1] IN
          /\ k = Len(execLog)
          /\ ~execLog[k].ret
          /\ chan[k].st = "closed" /\ chan[k].code = << <<0>> >>
          /\ ~chan[k].cont
          /\ mapperSt[k] = "pending"
    /\ \A k \in DOMAIN execLog :
          /\ mapperSt[k] = "resolved" =>
                /\ chan[k].st = "closed" /\ chan[k].code = << <<0>> >>
                /\ execLog[k].ret \/ chan[k].cont
          /\ chan[k].st # "starting" =>
                /\ chan[k].res \in DOMAIN results
                /\ results[chan[k].res].command = execLog[k].cmd
                /\ results[chan[k].res].stdout = chan[k].out
                /\ chan[k].st = "closed" =>
                      <<results[chan[k].res].exitCode>> = chan[k].code
    /\ Len(results) = Cardinality({k \in DOMAIN chan : chan[k].st # "starting"})
    /\ Delivered =>
          /\ execResult.commandCount = Len(commands)
          /\ execResult.successCount = Cardinality(Succeeded(results))
          /\ execResult.failureCount = Cardinality(Failed(results))

Wit_C36 ==
    /\ finishMethod = <<1>>
    /\ Len(chan[1].out) = 1
    /\ other[13] = "done"
    /\ other[5] = "resolved"
    /\ other[20] = {1}
    /\ Len(other[18][1].out) = 1
    /\ chunks = 2

\* ------------------------------------------------------------------ C37
\* C37: a failed read of the key file is not cached.  A call is rejected
\* only by its own failed read; the cache holds nothing but the data of a
\* read that succeeded, so it is empty while every call so far has been
\* rejected; a call started while no read has succeeded reads the file
\* anew, and resolves with the data of that read when it succeeds.
Inv_C37 ==
    /\ \A c \in DOMAIN calls : calls[c].st = "rejected" => calls[c].rid # 0
    /\ privateKeyData # 0 =>
          \E c \in DOMAIN calls :
              calls[c].rid = privateKeyData /\ calls[c].st = "resolved"
    /\ (\A c \in DOMAIN calls : calls[c].st = "rejected") => privateKeyData = 0
    /\ \A c \in DOMAIN calls :
          (auth # "password" /\ ~calls[c].after) =>
              /\ calls[c].rid # 0
              /\ calls[c].st = "resolved" => calls[c].opts.privateKey = calls[c].rid

Wit_C37 ==
    /\ Len(calls) = 2
    /\ calls[1].st = "rejected"
    /\ calls[2].st = "resolved"
    /\ calls[2].rid = 2
    /\ ~calls[2].after
    /\ privateKeyData = 2
    /\ reads = 2

\* ------------------------------------------------------------------ C38
\* The chunks delivered on the two streams of exec call k.
ChunksOf(k) ==
    {chan[k].out[j] : j \in DOMAIN chan[k].out}
    \cup {chan[k].err[j] : j \in DOMAIN chan[k].err}

\* The number of chunks the streams of the exec calls 1..k hold.
RECURSIVE HeldChunks(_)
HeldChunks(k) ==
    IF k = 0 THEN 0
    ELSE Len(chan[k].out) + Len(chan[k].err) + HeldChunks(k - 1)

\* C38: every chunk is in the one stream of the one exec call it was
\* delivered on, once; the stdout and stderr of a result are the chunks of
\* the two streams of its own exec call, in delivery order, also when
\* chunks came after the next command was submitted; and the other fields
\* of a result (command, exitCode, success, error) are what the start
\* callback and the close event of its call made them, whatever data was
\* delivered.
Inv_C38 ==
    /\ UNION {ChunksOf(k) : k \in DOMAIN chan} = 1..chunks
    /\ HeldChunks(Len(chan)) = chunks
    /\ \A k \in DOMAIN chan :
          chan[k].st # "starting" =>
              LET r == results[chan[k].res] IN
              /\ r.stdout = chan[k].out
              /\ r.stderr = chan[k].err
              /\ r.command = execLog[k].cmd
              /\ <<r.exitCode>> = IF chan[k].st = "closed" THEN chan[k].code
                                  ELSE << <<>> >>
              /\ r.success = (k \notin FailedCalls)
              /\ r.error = IF chan[k].st = "failed" THEN "startError"
                           ELSE IF k \in FailedCalls THEN "nonZeroExit"
                           ELSE "none"

Wit_C38 ==
    /\ Len(execLog) = 2
    /\ chan[2].err = <<1>>
    /\ chan[1].out = <<2>>
    /\ results[1].stdout = <<2>>
    /\ results[2].stderr = <<1>>

\* ------------------------------------------------------------------ C39
\* C39: exec has been called only when getConnectionOptions() resolved,
\* connect was called and 'ready' was handled.  Until 'ready' is handled
\* the loop does not exist: nothing is submitted, no result, resume slot
\* or promise of a command exists, and no event (a 'continue' included)
\* changes that.
Inv_C39 ==
    /\ execLog # <<>> =>
          /\ options = "resolved"
          /\ pc = "session"
          /\ connectCalls = 1
          /\ session = "ready"
    /\ session # "ready" =>
          /\ loopPc = "none"
          /\ execLog = <<>>
          /\ results = <<>>
          /\ mapperSt = <<>>
          /\ finishMethod = <<>>
          /\ contSeen = {}
          /\ endCalls = errCount

Wit_C39 ==
    /\ auth = "key"
    /\ runRead = 1
    /\ options = "resolved"
    /\ session = "ready"
    /\ Len(execLog) = 1
    /\ chan[1].st = "starting"
    /\ contSeen = {1}

====
